---- MODULE Spec2Model ----
(***************************************************************************)
(* A model of tf-asset-loader: the Loader facade (src/src/lib.rs) and the  *)
(* AssetSource backends (src/src/source.rs).                               *)
(*                                                                         *)
(* A path is a sequence of one-character strings, so that case folding,    *)
(* the "/../" test and the dot resolution are computed character by        *)
(* character as the code computes them.                                    *)
(***************************************************************************)
EXTENDS Integers, Sequences, FiniteSets, TLC

VARIABLES
    disk,      \* the install directory: tf, hl2, tf/download and the *dir.vpk files
    seen,      \* the install directory as with_tf2_dir saw it
    pc,        \* "new" before Loader::with_tf2_dir, then "built" or "failed"
    sources,   \* Loader.sources
    last,      \* the last call made on the loader: arguments, result, sources consulted
    path,      \* the argument of clean_path
    cleaned,   \* the value clean_path returned for it
    zpc,       \* per thread: where it stands in a lookup against the shared sources
    zcall,     \* per thread: the lookup it is making
    lock,      \* the holder of the Mutex around the ZipArchive, or NoThread
    zret       \* per thread: what its last lookup returned

vars == <<disk, seen, pc, sources, last, path, cleaned, zpc, zcall, lock, zret>>

loaderVars == <<disk, seen, pc, sources, last>>
cleanVars == <<path, cleaned>>
zipVars == <<zpc, zcall, lock, zret>>

----------------------------------------------------------------------------
(* Bounds *)

MaxPathLen == 6     \* longest path enumerated for clean_path
MaxSources == 3     \* add_source is not called on a loader with this many sources
MaxVpks == 1        \* most *dir.vpk files the directory scan finds
NumThreads == 2     \* threads sharing the loader

----------------------------------------------------------------------------
(* Strings *)

Upper == <<"A","B","C","D","E","F","G","H","I","J","K","L","M",
           "N","O","P","Q","R","S","T","U","V","W","X","Y","Z">>
Lower == <<"a","b","c","d","e","f","g","h","i","j","k","l","m",
           "n","o","p","q","r","s","t","u","v","w","x","y","z">>

\* u8::to_ascii_lowercase: 'A'..'Z' map to 'a'..'z', every other byte to itself
LowerOf == [c \in {Upper[i] : i \in 1..Len(Upper)} |->
               Lower[CHOOSE i \in 1..Len(Upper) : Upper[i] = c]]

char_to_ascii_lowercase(c) == IF c \in DOMAIN LowerOf THEN LowerOf[c] ELSE c

\* str::to_ascii_lowercase
to_ascii_lowercase(s) == [i \in 1..Len(s) |-> char_to_ascii_lowercase(s[i])]

Slash == "/"
DotDotFramed == <<"/", ".", ".", "/">>

\* str::contains("/../")
contains_dotdot(p) ==
    \E i \in 1..(Len(p) - 3) : SubSeq(p, i, i + 3) = DotDotFramed

\* the pieces of p between separators, empty pieces included
RECURSIVE Split(_, _, _)
Split(p, cur, acc) ==
    IF p = <<>> THEN Append(acc, cur)
    ELSE IF Head(p) = Slash THEN Split(Tail(p), <<>>, Append(acc, cur))
    ELSE Split(Tail(p), Append(cur, Head(p)), acc)

\* Path::components of a path that starts with the root: repeated
\* separators and "." pieces are normalised away, ".." is ParentDir
Components(p) ==
    SelectSeq(Split(p, <<>>, <<>>), LAMBDA s : s # <<>> /\ s # <<".">>)

ParentDir == <<".", ".">>
RootDir == <<"/">>

\* the token stack of parse_dot_from: ParentDir removes the last token
\* unless only the root is left, a normal component is pushed
RECURSIVE DedotTokens(_, _)
DedotTokens(comps, tokens) ==
    IF comps = <<>> THEN tokens
    ELSE IF Head(comps) = ParentDir
         THEN DedotTokens(Tail(comps),
                  IF Len(tokens) > 1 THEN SubSeq(tokens, 1, Len(tokens) - 1) ELSE tokens)
         ELSE DedotTokens(Tail(comps), Append(tokens, Head(comps)))

\* the tokens written back: the root, then the tokens separated by "/"
RECURSIVE JoinTokens(_, _)
JoinTokens(tokens, i) ==
    IF i > Len(tokens) THEN <<>>
    ELSE IF i = Len(tokens) THEN tokens[i]
    ELSE tokens[i] \o <<Slash>> \o JoinTokens(tokens, i + 1)

\* PathBuf::from(format!("/{path}")).parse_dot_from("/")
parse_dot_from_root(p) ==
    LET tokens == DedotTokens(Components(<<Slash>> \o p), <<RootDir>>)
    IN  RootDir \o JoinTokens(tokens, 2)

\* str::trim_start_matches('/')
RECURSIVE trim_start_matches_slash(_)
trim_start_matches_slash(s) ==
    IF s # <<>> /\ Head(s) = Slash THEN trim_start_matches_slash(Tail(s)) ELSE s

\* a clean_path that keeps the leading separator of the resolved path
clean_path_keeps_root(p) ==
    IF contains_dotdot(p) THEN parse_dot_from_root(p) ELSE p

clean_path(p) ==
    IF contains_dotdot(p)
    THEN trim_start_matches_slash(parse_dot_from_root(p))
    ELSE p

----------------------------------------------------------------------------
(* Results *)

Ok(v) == [tag |-> "ok", val |-> v]
Err(e) == [tag |-> "err", val |-> e]
None == <<"None">>
Some(d) == <<"Some", d>>

\* LoaderError::Io / LoaderError::Zip / LoaderError::Other, raised by the
\* source rooted at root for the path p
LoaderError(variant, root, p) == [variant |-> variant, root |-> root, path |-> p]

----------------------------------------------------------------------------
(* Asset sources *)

ModelsDir == <<"M","o","d","e","l","s","/">>
modelsDir == <<"m","o","d","e","l","s","/">>
FooMdl == <<"F","o","o",".","m","d","l">>
fooMdl == <<"f","o","o",".","m","d","l">>

MixedName == ModelsDir \o FooMdl     \* Models/Foo.mdl
LowerName == modelsDir \o fooMdl     \* models/foo.mdl

\* the paths under which the modelled stores keep an entry
StoredNames == {MixedName, LowerName}

\* an entry of a store: no such entry, an entry whose bytes can be read,
\* or an entry the underlying store fails on with something else than
\* "not found"
EntryStates == {"absent", "file", "bad"}

EmptyStore == [k \in StoredNames |-> "absent"]

\* the stores drawn for a source: empty, or one entry
Stores ==
    {EmptyStore} \cup
    {[EmptyStore EXCEPT ![k] = e] : k \in StoredNames, e \in {"file", "bad"}}

EntryAt(store, p) == IF p \in DOMAIN store THEN store[p] ELSE "absent"

\* the bytes of the entry p of the source rooted at root
Bytes(root, p) == [of |-> root, at |-> p]

Source(kind, root, store) == [kind |-> kind, root |-> root, store |-> store]

\* Path::exists on base.join(path): true for anything that is there
fs_exists(s, p) == EntryAt(s.store, p) # "absent"

\* std::fs::read of base.join(path)
fs_read(s, p) ==
    CASE EntryAt(s.store, p) = "file" -> Ok(Bytes(s.root, p))
      [] EntryAt(s.store, p) = "absent" -> Err("NotFound")
      [] OTHER -> Err("PermissionDenied")

PathBuf_has(s, p) == Ok(fs_exists(s, p))

\* a directory source that reports a missing file as an error
PathBuf_load_notfound_is_error(s, p) ==
    LET r == fs_read(s, p)
    IN  IF r.tag = "ok" THEN Ok(Some(r.val))
        ELSE Err(LoaderError("Io", s.root, p))

PathBuf_load(s, p) ==
    LET r == fs_read(s, p)
    IN  IF r.tag = "ok" THEN Ok(Some(r.val))
        ELSE IF r.val = "NotFound" THEN Ok(None)
        ELSE Err(LoaderError("Io", s.root, p))

\* VPK: tree.contains_key(path)
VPK_has(s, p) == Ok(EntryAt(s.store, p) # "absent")

\* VPK: tree.get(path), then entry.get()?
VPK_load(s, p) ==
    CASE EntryAt(s.store, p) = "absent" -> Ok(None)
      [] EntryAt(s.store, p) = "file" -> Ok(Some(Bytes(s.root, p)))
      [] OTHER -> Err(LoaderError("Io", s.root, p))

\* Packfile::has, the error re-wrapped
Packfile_has(s, p) ==
    CASE EntryAt(s.store, p) = "absent" -> Ok(FALSE)
      [] EntryAt(s.store, p) = "file" -> Ok(TRUE)
      [] OTHER -> Err(LoaderError("Zip", s.root, p))

\* Packfile::get, the error re-wrapped
Packfile_load(s, p) ==
    CASE EntryAt(s.store, p) = "absent" -> Ok(None)
      [] EntryAt(s.store, p) = "file" -> Ok(Some(Bytes(s.root, p)))
      [] OTHER -> Err(LoaderError("Zip", s.root, p))

\* ZipArchive::by_name under the lock
zip_by_name(s, p) ==
    CASE EntryAt(s.store, p) = "absent" -> Err("FileNotFound")
      [] EntryAt(s.store, p) = "file" -> Ok(Bytes(s.root, p))
      [] OTHER -> Err("InvalidArchive")

Zip_has(s, p) ==
    LET r == zip_by_name(s, p)
    IN  IF r.tag = "ok" THEN Ok(TRUE)
        ELSE IF r.val = "FileNotFound" THEN Ok(FALSE)
        ELSE Err(LoaderError("Zip", s.root, p))

Zip_load(s, p) ==
    LET r == zip_by_name(s, p)
    IN  IF r.tag = "ok" THEN Ok(Some(r.val))
        ELSE IF r.val = "FileNotFound" THEN Ok(None)
        ELSE Err(LoaderError("Zip", s.root, p))

Kinds == {"dir", "vpk", "bsp", "zip"}

\* dyn AssetSource::has
has(s, p) ==
    CASE s.kind = "dir" -> PathBuf_has(s, p)
      [] s.kind = "vpk" -> VPK_has(s, p)
      [] s.kind = "bsp" -> Packfile_has(s, p)
      [] OTHER -> Zip_has(s, p)

\* dyn AssetSource::load
source_load(s, p) ==
    CASE s.kind = "dir" -> PathBuf_load(s, p)
      [] s.kind = "vpk" -> VPK_load(s, p)
      [] s.kind = "bsp" -> Packfile_load(s, p)
      [] OTHER -> Zip_load(s, p)

----------------------------------------------------------------------------
(* Loader *)

IsErr(r) == r.tag = "err"
IsHit(r) == r.tag = "ok" /\ r.val # None
IsTrue(r) == r.tag = "ok" /\ r.val

Query(i, name) == [src |-> i, name |-> name]

\* a pass that goes on after a hit and returns the last one
RECURSIVE load_pass_last_hit(_, _, _, _)
load_pass_last_hit(srcs, name, i, log) ==
    IF i > Len(srcs) THEN [res |-> Ok(None), log |-> log]
    ELSE LET r == source_load(srcs[i], name)
             log2 == Append(log, Query(i, name))
         IN  IF IsErr(r) THEN [res |-> r, log |-> log2]
             ELSE LET rest == load_pass_last_hit(srcs, name, i + 1, log2)
                  IN  IF IsHit(r) /\ ~IsErr(rest.res) /\ ~IsHit(rest.res)
                      THEN [res |-> r, log |-> rest.log]
                      ELSE rest

\* one pass of Loader::load over the sources from the i-th on; log is the
\* list of the source.load calls made so far
RECURSIVE load_pass(_, _, _, _)
load_pass(srcs, name, i, log) ==
    IF i > Len(srcs) THEN [res |-> Ok(None), log |-> log]
    ELSE LET r == source_load(srcs[i], name)
             log2 == Append(log, Query(i, name))
         IN  IF IsErr(r) \/ IsHit(r) THEN [res |-> r, log |-> log2]
             ELSE load_pass(srcs, name, i + 1, log2)

\* a pass that takes a failing source for one that misses
RECURSIVE exists_pass_skips_errors(_, _, _, _)
exists_pass_skips_errors(srcs, name, i, log) ==
    IF i > Len(srcs) THEN [res |-> Ok(FALSE), log |-> log]
    ELSE LET r == has(srcs[i], name)
             log2 == Append(log, Query(i, name))
         IN  IF IsTrue(r) THEN [res |-> r, log |-> log2]
             ELSE exists_pass_skips_errors(srcs, name, i + 1, log2)

\* one pass of Loader::exists
RECURSIVE exists_pass(_, _, _, _)
exists_pass(srcs, name, i, log) ==
    IF i > Len(srcs) THEN [res |-> Ok(FALSE), log |-> log]
    ELSE LET r == has(srcs[i], name)
             log2 == Append(log, Query(i, name))
         IN  IF IsErr(r) \/ IsTrue(r) THEN [res |-> r, log |-> log2]
             ELSE exists_pass(srcs, name, i + 1, log2)

\* Loader::exists
exists(srcs, rawname) ==
    LET name == clean_path(rawname)
        first == exists_pass(srcs, name, 1, <<>>)
        lower_name == to_ascii_lowercase(name)
    IN  IF IsErr(first.res) \/ IsTrue(first.res) THEN first
        ELSE IF name # lower_name THEN exists_pass(srcs, lower_name, 1, first.log)
        ELSE first

\* a load without the lowercase pass
load_exact_only(srcs, rawname) ==
    load_pass(srcs, clean_path(rawname), 1, <<>>)

\* a load that asks each source for the name and then for its lowercase
\* form before it goes to the next source
RECURSIVE load_both_cases_pass(_, _, _, _, _)
load_both_cases_pass(srcs, name, lower_name, i, log) ==
    IF i > Len(srcs) THEN [res |-> Ok(None), log |-> log]
    ELSE LET r == source_load(srcs[i], name)
             log2 == Append(log, Query(i, name))
         IN  IF IsErr(r) \/ IsHit(r) THEN [res |-> r, log |-> log2]
             ELSE IF name = lower_name
                  THEN load_both_cases_pass(srcs, name, lower_name, i + 1, log2)
                  ELSE LET r2 == source_load(srcs[i], lower_name)
                           log3 == Append(log2, Query(i, lower_name))
                       IN  IF IsErr(r2) \/ IsHit(r2) THEN [res |-> r2, log |-> log3]
                           ELSE load_both_cases_pass(srcs, name, lower_name, i + 1, log3)

load_source_by_source(srcs, rawname) ==
    LET name == clean_path(rawname)
    IN  load_both_cases_pass(srcs, name, to_ascii_lowercase(name), 1, <<>>)

\* Loader::load
load(srcs, rawname) ==
    LET name == clean_path(rawname)
        first == load_pass(srcs, name, 1, <<>>)
        lower_name == to_ascii_lowercase(name)
    IN  IF IsErr(first.res) \/ IsHit(first.res) THEN first
        ELSE IF name # lower_name THEN load_pass(srcs, lower_name, 1, first.log)
        ELSE first

\* Result::unwrap_or_default of an existence check
unwrap_or_default(r) == IF IsErr(r) THEN FALSE ELSE r.val

\* a pass that gives up at the first existence check that fails
RECURSIVE find_pass_stops_on_error(_, _, _, _)
find_pass_stops_on_error(srcs, name, paths, i) ==
    IF i > Len(paths) THEN None
    ELSE LET full_path == clean_path(paths[i] \o name)
             r == exists(srcs, full_path).res
         IN  IF IsErr(r) THEN None
             ELSE IF r.val THEN Some(full_path)
             ELSE find_pass_stops_on_error(srcs, name, paths, i + 1)

\* one pass of Loader::find_in_paths over the prefixes from the i-th on
RECURSIVE find_pass(_, _, _, _)
find_pass(srcs, name, paths, i) ==
    IF i > Len(paths) THEN None
    ELSE LET full_path == clean_path(paths[i] \o name)
         IN  IF unwrap_or_default(exists(srcs, full_path).res)
             THEN Some(full_path)
             ELSE find_pass(srcs, name, paths, i + 1)

\* Loader::find_in_paths
find_in_paths(srcs, name, paths) ==
    LET first == find_pass(srcs, name, paths, 1)
        lower_name == to_ascii_lowercase(name)
    IN  IF first # None THEN first
        ELSE IF name # lower_name THEN find_pass(srcs, lower_name, paths, 1)
        ELSE None

\* an add_source that puts the new source first
add_source_first(srcs, s) == <<s>> \o srcs

\* Loader::add_source
add_source(srcs, s) == Append(srcs, s)

----------------------------------------------------------------------------
(* Construction *)

TfRoot == <<"tf">>
HlRoot == <<"hl2">>
DownloadRoot == <<"tf", "download">>
VpkRoot(j) == <<"dir.vpk", j>>
AddedRoot(n) == <<"added", n>>

\* a directory that may not exist, an archive that may not parse: no
\* element, or the one store
Absent == <<>>
Present(store) == <<store>>

\* what vpk::from_path gave for each *dir.vpk file the scan of tf and hl2
\* found, in scan order: a parsed tree, or a failure
RECURSIVE VpkScans(_, _)
VpkScans(stores, n) ==
    IF n = 0 THEN {<<>>}
    ELSE VpkScans(stores, n - 1) \cup
         {Append(v, t) : v \in {w \in VpkScans(stores, n - 1) : Len(w) = n - 1},
                         t \in {Present(st) : st \in stores} \cup {Absent}}

\* install directories
Disks(stores, vpkscans) ==
    [tf : stores, hl2 : stores,
     download : {Present(st) : st \in stores} \cup {Absent},
     vpks : vpkscans, tf_readable : BOOLEAN, hl_readable : BOOLEAN]

\* the parsed archives, those that failed to parse dropped
RECURSIVE vpk_sources(_, _)
vpk_sources(vpks, j) ==
    IF j > Len(vpks) THEN <<>>
    ELSE IF vpks[j] = Absent THEN vpk_sources(vpks, j + 1)
    ELSE <<Source("vpk", VpkRoot(j), vpks[j][1])>> \o vpk_sources(vpks, j + 1)

\* a with_tf2_dir that adds the download directory after the archives
with_tf2_dir_download_last(d) ==
    IF ~d.tf_readable THEN Err(LoaderError("Io", TfRoot, <<>>))
    ELSE IF ~d.hl_readable THEN Err(LoaderError("Io", HlRoot, <<>>))
    ELSE Ok(<<Source("dir", TfRoot, d.tf), Source("dir", HlRoot, d.hl2)>>
            \o vpk_sources(d.vpks, 1)
            \o (IF d.download # Absent
                THEN <<Source("dir", DownloadRoot, d.download[1])>> ELSE <<>>))

\* Loader::with_tf2_dir
with_tf2_dir(d) ==
    IF ~d.tf_readable THEN Err(LoaderError("Io", TfRoot, <<>>))
    ELSE IF ~d.hl_readable THEN Err(LoaderError("Io", HlRoot, <<>>))
    ELSE Ok(<<Source("dir", TfRoot, d.tf), Source("dir", HlRoot, d.hl2)>>
            \o (IF d.download # Absent
                THEN <<Source("dir", DownloadRoot, d.download[1])>> ELSE <<>>)
            \o vpk_sources(d.vpks, 1))

----------------------------------------------------------------------------
(* The loader in use: Init is a loader as with_tf2_dir built it *)

DottedName == <<"x", "/", ".", ".", "/">> \o MixedName    \* x/../Models/Foo.mdl

\* the names asked of exists and load
QueryNames == {MixedName, LowerName, DottedName}

\* the names and the prefix lists asked of find_in_paths
FindNames == {FooMdl, fooMdl}
PrefixLists == {<<ModelsDir>>, <<ModelsDir, modelsDir>>}

\* with_tf2_dir makes the directory and archive-index sources; the map
\* packfile and zip sources exist in a loader only through add_source
AddedKinds == {"bsp", "zip"}

NoCall == [op |-> "none"]

NoThread == 0
Threads == 1..NumThreads

IdleZip ==
    /\ zpc = [t \in Threads |-> "idle"]
    /\ zcall = [t \in Threads |-> "none"]
    /\ lock = NoThread
    /\ zret = [t \in Threads |-> "none"]

IdleClean == path = <<>> /\ cleaned = <<>>

Init ==
    /\ disk \in {d \in Disks(Stores, VpkScans(Stores, MaxVpks)) :
                    /\ d.tf_readable /\ d.hl_readable
                    /\ \A j \in 1..Len(d.vpks) : d.vpks[j] # Absent}
    /\ seen = disk
    /\ pc = "built"
    /\ sources = with_tf2_dir(disk).val
    /\ last = NoCall
    /\ IdleClean
    /\ IdleZip

AddSource ==
    /\ pc = "built"
    /\ Len(sources) < MaxSources
    /\ \E kind \in AddedKinds, st \in Stores :
          sources' = add_source(sources,
                                Source(kind, AddedRoot(Len(sources) + 1), st))
    /\ last' = [op |-> "add_source"]
    /\ UNCHANGED <<disk, seen, pc, cleanVars, zipVars>>

Exists ==
    /\ pc = "built"
    /\ \E name \in QueryNames :
          LET r == exists(sources, name)
          IN  last' = [op |-> "exists", name |-> name, res |-> r.res, log |-> r.log]
    /\ UNCHANGED <<disk, seen, pc, sources, cleanVars, zipVars>>

Load ==
    /\ pc = "built"
    /\ \E name \in QueryNames :
          LET r == load(sources, name)
          IN  last' = [op |-> "load", name |-> name, res |-> r.res, log |-> r.log]
    /\ UNCHANGED <<disk, seen, pc, sources, cleanVars, zipVars>>

FindInPaths ==
    /\ pc = "built"
    /\ \E name \in FindNames, paths \in PrefixLists :
          last' = [op |-> "find_in_paths", name |-> name, paths |-> paths,
                   res |-> find_in_paths(sources, name, paths)]
    /\ UNCHANGED <<disk, seen, pc, sources, cleanVars, zipVars>>

Next == AddSource \/ Exists \/ Load \/ FindInPaths

Spec == Init /\ [][Next]_vars

----------------------------------------------------------------------------
(* Construction: Init is an install directory no loader was built from yet *)

\* the contents drawn for the directories and archives of the install
CtorStores == {EmptyStore, [EmptyStore EXCEPT ![LowerName] = "file"]}

InitCtor ==
    /\ disk \in Disks(CtorStores, VpkScans(CtorStores, MaxVpks))
    /\ seen = disk
    /\ pc = "new"
    /\ sources = <<>>
    /\ last = NoCall
    /\ IdleClean
    /\ IdleZip

\* Loader::with_tf2_dir on the install directory as it is now
Construct ==
    /\ pc = "new"
    /\ LET r == with_tf2_dir(disk)
       IN  /\ pc' = IF IsErr(r) THEN "failed" ELSE "built"
           /\ sources' = IF IsErr(r) THEN <<>> ELSE r.val
    /\ seen' = disk
    /\ last' = [op |-> "with_tf2_dir"]
    /\ UNCHANGED <<disk, cleanVars, zipVars>>

\* somebody else creates tf/download
MakeDownload ==
    /\ disk.download = Absent
    /\ \E st \in CtorStores : disk' = [disk EXCEPT !.download = Present(st)]
    /\ UNCHANGED <<seen, pc, sources, last, cleanVars, zipVars>>

NextCtor == Construct \/ MakeDownload \/ Load \/ AddSource

SpecCtor == InitCtor /\ [][NextCtor]_vars

----------------------------------------------------------------------------
(* clean_path on its own: Init draws the path *)

PathChars == {"a", "b", ".", "/"}

RECURSIVE PathsOfLen(_)
PathsOfLen(n) ==
    IF n = 0 THEN {<<>>}
    ELSE {Append(p, c) : p \in PathsOfLen(n - 1), c \in PathChars}

FooBar == <<"f","o","o","/","b","a","r">>                              \* foo/bar
FooAsdBar == <<"f","o","o","/","a","s","d","/",".",".","/","b","a","r">> \* foo/asd/../bar
DotDotBar == <<".",".","/","b","a","r">>                               \* ../bar

Paths == UNION {PathsOfLen(n) : n \in 0..MaxPathLen} \cup {FooBar, FooAsdBar, DotDotBar}

Unset == <<"unset">>

InitClean ==
    /\ path \in Paths
    /\ cleaned = Unset
    /\ disk = [download |-> Absent] /\ seen = disk
    /\ pc = "new" /\ sources = <<>> /\ last = NoCall
    /\ IdleZip

Clean ==
    /\ cleaned = Unset
    /\ cleaned' = clean_path(path)
    /\ UNCHANGED <<path, loaderVars, zipVars>>

NextClean == Clean

SpecClean == InitClean /\ [][NextClean]_vars

----------------------------------------------------------------------------
(* Threads sharing one loader: a zip source behind its Mutex, and a        *)
(* directory source                                                        *)

ZipRoot == <<"maps.zip">>

\* the shared archive: one entry that reads, one the reader fails on
SharedZip ==
    Source("zip", ZipRoot,
           [EmptyStore EXCEPT ![MixedName] = "file", ![LowerName] = "bad"])

SharedDir == Source("dir", TfRoot, [EmptyStore EXCEPT ![LowerName] = "file"])

\* the paths the threads ask for: a hit, a failure and a miss of the archive
ZipPaths == {MixedName, LowerName, FooMdl}

NoZCall == [op |-> "none"]
NoResult == [tag |-> "none"]

\* Mutex::lock succeeds when nobody holds the lock
mutex_free(l) == l = NoThread

\* a guard that stays locked when the lookup returns an error
guard_drop_unless_error(l, t, r) == IF l = t /\ ~IsErr(r) THEN NoThread ELSE l

\* the MutexGuard goes out of scope as has/load returns r
guard_drop(l, t, r) == IF l = t THEN NoThread ELSE l

InitZip ==
    /\ zpc = [t \in Threads |-> "idle"]
    /\ zcall = [t \in Threads |-> NoZCall]
    /\ zret = [t \in Threads |-> NoResult]
    /\ lock = NoThread
    /\ disk = [download |-> Absent] /\ seen = disk
    /\ pc = "built" /\ sources = <<SharedDir, SharedZip>> /\ last = NoCall
    /\ IdleClean

\* a thread calls has or load of one of the two sources
ZCall(t) ==
    /\ zpc[t] = "idle"
    /\ \E op \in {"has", "load"}, i \in 1..Len(sources), p \in ZipPaths :
          /\ zcall' = [zcall EXCEPT ![t] = [op |-> op, src |-> i, path |-> p]]
          /\ zpc' = [zpc EXCEPT ![t] = IF sources[i].kind = "zip" THEN "lock" ELSE "other"]
    /\ zret' = [zret EXCEPT ![t] = NoResult]
    /\ UNCHANGED <<lock, loaderVars, cleanVars>>

\* self.lock().unwrap()
ZAcquire(t) ==
    /\ zpc[t] = "lock"
    /\ mutex_free(lock)
    /\ lock' = t
    /\ zpc' = [zpc EXCEPT ![t] = "by_name"]
    /\ UNCHANGED <<zcall, zret, loaderVars, cleanVars>>

\* zip.by_name(path) and the match on its result
ZByName(t) ==
    /\ zpc[t] = "by_name"
    /\ LET c == zcall[t]
           s == sources[c.src]
       IN  IF c.op = "load" /\ zip_by_name(s, c.path).tag = "ok"
           THEN /\ zpc' = [zpc EXCEPT ![t] = "read_exact"]
                /\ zret' = zret
           ELSE /\ zpc' = [zpc EXCEPT ![t] = "ret"]
                /\ zret' = [zret EXCEPT ![t] =
                              IF c.op = "has" THEN Zip_has(s, c.path)
                              ELSE Zip_load(s, c.path)]
    /\ UNCHANGED <<zcall, lock, loaderVars, cleanVars>>

\* entry.read_exact(&mut buff)?
ZReadExact(t) ==
    /\ zpc[t] = "read_exact"
    /\ LET c == zcall[t]
           s == sources[c.src]
       IN  \E short \in BOOLEAN :
              zret' = [zret EXCEPT ![t] =
                         IF short THEN Err(LoaderError("Io", s.root, c.path))
                         ELSE Zip_load(s, c.path)]
    /\ zpc' = [zpc EXCEPT ![t] = "ret"]
    /\ UNCHANGED <<zcall, lock, loaderVars, cleanVars>>

\* has or load of a source without a lock
ZOther(t) ==
    /\ zpc[t] = "other"
    /\ LET c == zcall[t]
           s == sources[c.src]
       IN  zret' = [zret EXCEPT ![t] =
                      IF c.op = "has" THEN has(s, c.path) ELSE source_load(s, c.path)]
    /\ zpc' = [zpc EXCEPT ![t] = "ret"]
    /\ UNCHANGED <<zcall, lock, loaderVars, cleanVars>>

\* the call returns: its locals, the guard among them, are dropped
ZReturn(t) ==
    /\ zpc[t] = "ret"
    /\ lock' = guard_drop(lock, t, zret[t])
    /\ zpc' = [zpc EXCEPT ![t] = "idle"]
    /\ zcall' = [zcall EXCEPT ![t] = NoZCall]
    /\ zret' = [zret EXCEPT ![t] = NoResult]
    /\ UNCHANGED <<loaderVars, cleanVars>>

NextZip ==
    \E t \in Threads :
        ZCall(t) \/ ZAcquire(t) \/ ZByName(t) \/ ZReadExact(t) \/ ZOther(t) \/ ZReturn(t)

\* a thread inside a lookup runs on; a thread blocked in lock() gets the
\* lock if it is free again and again
ZipFairness ==
    \A t \in Threads :
        /\ WF_vars(ZByName(t))
        /\ WF_vars(ZReadExact(t))
        /\ WF_vars(ZOther(t))
        /\ WF_vars(ZReturn(t))
        /\ SF_vars(ZAcquire(t))

SpecZip == InitZip /\ [][NextZip]_vars /\ ZipFairness

----------------------------------------------------------------------------
(* Properties of the lookups *)

Min(S) == CHOOSE x \in S : \A y \in S : x <= y

Holds(s, p) == EntryAt(s.store, p) = "file"
Fails(s, p) == EntryAt(s.store, p) = "bad"
Lacks(s, p) == EntryAt(s.store, p) = "absent"

Holders(p) == {i \in 1..Len(sources) : Holds(sources[i], p)}

Returned(r, v) == r.tag = "ok" /\ r.val = v

\* the calls of one pass that asks the first k sources for p
PassLog(p, k) == [i \in 1..k |-> Query(i, p)]

IsLookup == last.op \in {"exists", "load"}
CleanedName == clean_path(last.name)
LoweredName == to_ascii_lowercase(CleanedName)

\* the sources the loader got from with_tf2_dir
BuiltSources == with_tf2_dir(seen).val

\* C1 as claimed: whenever two or more sources hold the cleaned name,
\* load returns the bytes of the first of them and consults no source
\* after it.
C1_FirstHolderAlwaysWins ==
    (last.op = "load" /\ Cardinality(Holders(CleanedName)) >= 2) =>
        LET first == Min(Holders(CleanedName))
        IN  /\ Returned(last.res, Some(Bytes(sources[first].root, CleanedName)))
            /\ last.log = PassLog(CleanedName, first)

\* C1: whenever two or more sources hold the cleaned name and no source
\* listed before the first of them fails on it, load returns the bytes of
\* that first source and consults exactly the sources up to it, whether
\* the sources came from with_tf2_dir or from add_source.
C1_FirstHolderWins ==
    (/\ last.op = "load"
     /\ Cardinality(Holders(CleanedName)) >= 2
     /\ \A j \in 1..(Min(Holders(CleanedName)) - 1) : ~Fails(sources[j], CleanedName)) =>
        LET first == Min(Holders(CleanedName))
        IN  /\ Returned(last.res, Some(Bytes(sources[first].root, CleanedName)))
            /\ last.log = PassLog(CleanedName, first)

\* two holders, one of them appended with add_source, and a source before
\* the winner was asked first
C1_Witness ==
    /\ last.op = "load"
    /\ Cardinality(Holders(CleanedName)) >= 2
    /\ \E i \in Holders(CleanedName) : i > Len(BuiltSources)
    /\ Min(Holders(CleanedName)) > 1
    /\ last.res.tag = "ok"

\* C2 as claimed: a file stored only as Models/Foo.mdl is found by
\* load("models/foo.mdl").
C2_LowercaseRequestFindsMixedEntry ==
    (/\ last.op = "load"
     /\ last.name = LowerName
     /\ Holders(MixedName) # {}
     /\ \A i \in 1..Len(sources) : Lacks(sources[i], LowerName)) =>
        Returned(last.res, Some(Bytes(sources[Min(Holders(MixedName))].root, MixedName)))

\* C2: the fallback lowercases the request, not the stored path. When no
\* source has an entry Models/Foo.mdl and no source before the first
\* holder of models/foo.mdl fails on it, load("Models/Foo.mdl") asks every
\* source for the name as given, then finds models/foo.mdl in the
\* lowercase pass; and load("models/foo.mdl") of a file stored only as
\* Models/Foo.mdl returns absent after one pass.
C2_MixedRequestFindsLowercaseEntry ==
    /\ (/\ last.op = "load"
        /\ last.name = MixedName
        /\ Holders(LowerName) # {}
        /\ \A i \in 1..Len(sources) : Lacks(sources[i], MixedName)
        /\ \A j \in 1..(Min(Holders(LowerName)) - 1) : ~Fails(sources[j], LowerName)) =>
           LET first == Min(Holders(LowerName))
           IN  /\ Returned(last.res, Some(Bytes(sources[first].root, LowerName)))
               /\ last.log = PassLog(MixedName, Len(sources)) \o PassLog(LowerName, first)
    /\ (/\ last.op = "load"
        /\ last.name = LowerName
        /\ \A i \in 1..Len(sources) : Lacks(sources[i], LowerName)) =>
           /\ Returned(last.res, None)
           /\ last.log = PassLog(LowerName, Len(sources))

C2_Witness ==
    /\ last.op = "load"
    /\ last.name = MixedName
    /\ Holders(LowerName) # {}
    /\ \A i \in 1..Len(sources) : Lacks(sources[i], MixedName)
    /\ last.res.tag = "ok"
    /\ last.res.val # None

\* what the source asked by the call q of the last lookup answered
Answer(q) ==
    IF last.op = "load" THEN source_load(sources[q.src], q.name)
    ELSE has(sources[q.src], q.name)

\* C3: in exists and load, a call of a source that raises an error is the
\* last call made, in either pass, and the error it raised is what the
\* lookup returns.
C3_ErrorAbortsScan ==
    IsLookup =>
        \A j \in 1..Len(last.log) :
            IsErr(Answer(last.log[j])) =>
                /\ j = Len(last.log)
                /\ last.res.tag = "err"
                /\ last.res.val.root = sources[last.log[j].src].root
                /\ last.res.val.path = last.log[j].name

\* an error was returned although a source never asked holds the name
\* asked for or its lowercase form
C3_Witness ==
    /\ IsLookup
    /\ last.res.tag = "err"
    /\ \E i \in 1..Len(sources) :
          /\ Holds(sources[i], LoweredName)
          /\ \A j \in 1..Len(last.log) : last.log[j] # Query(i, LoweredName)

\* C4: load of a name that no source has an entry for, under the cleaned
\* name or its lowercase form, returns absent and no error, whatever the
\* backends of the sources are.
C4_MissIsAbsent ==
    (/\ last.op = "load"
     /\ \A i \in 1..Len(sources) :
           Lacks(sources[i], CleanedName) /\ Lacks(sources[i], LoweredName)) =>
        Returned(last.res, None)

\* a miss of a loader with directory sources and a source of another
\* backend, both passes made
C4_Witness ==
    /\ last.op = "load"
    /\ \A i \in 1..Len(sources) :
          Lacks(sources[i], CleanedName) /\ Lacks(sources[i], LoweredName)
    /\ \E i \in 1..Len(sources) : sources[i].kind = "dir"
    /\ \E i \in 1..Len(sources) : sources[i].kind # "dir"
    /\ Len(last.log) = 2 * Len(sources)
    /\ last.res.tag = "ok"

\* the existence check of find_in_paths says yes: an error counts as no
CheckSaysYes(p) == IsTrue(exists(sources, p).res)

\* the candidates of find_in_paths whose check says yes
Candidates(name, paths) ==
    {i \in 1..Len(paths) : CheckSaysYes(clean_path(paths[i] \o name))}

\* C5: find_in_paths returns the cleaned prefix+name of the first prefix
\* whose existence check says yes, a check that raises an error counting
\* as a miss; if there is none, the same with the lowercase form of name;
\* absent if there is none either. It is never an error.
C5_FindInPaths ==
    last.op = "find_in_paths" =>
        LET lower_name == to_ascii_lowercase(last.name)
            exact == Candidates(last.name, last.paths)
            lower == Candidates(lower_name, last.paths)
        IN  last.res =
               IF exact # {}
               THEN Some(clean_path(last.paths[Min(exact)] \o last.name))
               ELSE IF lower # {}
               THEN Some(clean_path(last.paths[Min(lower)] \o lower_name))
               ELSE None

\* the check of the first candidate raised an error and a later candidate
\* or the lowercase retry was returned
C5_Witness ==
    /\ last.op = "find_in_paths"
    /\ IsErr(exists(sources, clean_path(last.paths[1] \o last.name)).res)
    /\ last.res # None

IsPrefix(a, b) == Len(a) <= Len(b) /\ SubSeq(b, 1, Len(a)) = a

\* C8: the list with_tf2_dir built is a prefix of the list at all times;
\* a step of add_source appends one source and keeps the rest in place;
\* a step of exists, load or find_in_paths leaves the list as it was.
C8_AppendOnly ==
    /\ [](pc = "built" => IsPrefix(BuiltSources, sources))
    /\ [][/\ IsPrefix(sources, sources')
          /\ Len(sources') <= Len(sources) + 1
          /\ (last'.op = "add_source" => Len(sources') = Len(sources) + 1)
          /\ (last'.op \in {"exists", "load", "find_in_paths"} => sources' = sources)]_vars

\* a lookup made after add_source
C8_Witness ==
    /\ last.op \in {"exists", "load", "find_in_paths"}
    /\ Len(sources) > Len(BuiltSources)

\* C9: in exists and load, only the cleaned name and its lowercase form
\* are asked for; the lowercase form, when it differs, is asked only
\* after every source was asked for the cleaned name and had no entry;
\* a name that is lowercase already makes each source be asked at most
\* once; so a source that holds the cleaned name, all sources before it
\* having no entry for it, wins over earlier sources that hold the
\* lowercase form.
C9_TwoPasses ==
    IsLookup =>
        LET n == Len(sources)
        IN  /\ \A j \in 1..Len(last.log) :
                  /\ last.log[j].name \in {CleanedName, LoweredName}
                  /\ (last.log[j].name # CleanedName =>
                        /\ j > n
                        /\ SubSeq(last.log, 1, n) = PassLog(CleanedName, n)
                        /\ \A i \in 1..n : Lacks(sources[i], CleanedName))
            /\ (CleanedName = LoweredName =>
                   \A j, k \in 1..Len(last.log) :
                       last.log[j].src = last.log[k].src => j = k)
            /\ \A i \in 1..n :
                  (/\ last.op = "load"
                   /\ Holds(sources[i], CleanedName)
                   /\ \A j \in 1..(i - 1) : Lacks(sources[j], CleanedName)) =>
                      Returned(last.res, Some(Bytes(sources[i].root, CleanedName)))

\* an exact-case hit in a source listed after one that holds the
\* lowercase form
C9_Witness ==
    /\ last.op = "load"
    /\ CleanedName # LoweredName
    /\ \E i \in 1..Len(sources), j \in 1..Len(sources) :
          /\ j < i
          /\ Holds(sources[j], LoweredName)
          /\ Holds(sources[i], CleanedName)
    /\ last.res.tag = "ok"
    /\ last.res.val # None

----------------------------------------------------------------------------
(* Properties of clean_path *)

\* the components of p that are names
NamesAndParents(p) ==
    SelectSeq(Split(p, <<>>, <<>>), LAMBDA x : x # <<>> /\ x # <<".">>)

\* resolution by rewriting: the first ".." goes, and with it the name
\* before it if there is one
RECURSIVE Collapse(_)
Collapse(pieces) ==
    LET dd == {i \in 1..Len(pieces) : pieces[i] = ParentDir}
    IN  IF dd = {} THEN pieces
        ELSE LET i == Min(dd)
             IN  Collapse(SubSeq(pieces, 1, i - 2) \o SubSeq(pieces, i + 1, Len(pieces)))

PiecesOf(p) == IF p = <<>> THEN <<>> ELSE Split(p, <<>>, <<>>)

\* C6: clean_path returns a path without "/../" as it is; a path with
\* "/../" comes back as its names, in order and separated by "/", with
\* every "." gone and every ".." resolved against the root, so with no
\* leading "/", no empty component and no ".." left. foo/bar and ../bar
\* stay as they are, foo/asd/../bar becomes foo/bar.
C6_CleanPath ==
    cleaned # Unset =>
        /\ (~contains_dotdot(path) => cleaned = path)
        /\ (contains_dotdot(path) =>
               /\ (cleaned # <<>> => Head(cleaned) # Slash)
               /\ \A i \in 1..Len(PiecesOf(cleaned)) :
                     PiecesOf(cleaned)[i] \notin {<<>>, <<".">>, ParentDir}
               /\ PiecesOf(cleaned) = Collapse(NamesAndParents(path)))
        /\ (path = FooBar => cleaned = FooBar)
        /\ (path = FooAsdBar => cleaned = FooBar)
        /\ (path = DotDotBar => cleaned = DotDotBar)

\* a path that climbs above the root and then names something
C6_Witness ==
    /\ cleaned # Unset
    /\ contains_dotdot(path)
    /\ Len(path) > 4
    /\ SubSeq(path, 1, 4) = DotDotFramed
    /\ cleaned # <<>>

----------------------------------------------------------------------------
(* Properties of the construction *)

\* the archives that parsed, in scan order
ParsedVpks(d) ==
    SelectSeq([j \in 1..Len(d.vpks) |-> j], LAMBDA j : d.vpks[j] # Absent)

ExpectedRoots(d) ==
    <<TfRoot, HlRoot>>
    \o (IF d.download # Absent THEN <<DownloadRoot>> ELSE <<>>)
    \o [k \in 1..Len(ParsedVpks(d)) |-> VpkRoot(ParsedVpks(d)[k])]

----------------------------------------------------------------------------
(* Properties of the zip source *)

InReader(t) == zpc[t] \in {"by_name", "read_exact"}
Blocked(t) == zpc[t] = "lock"

====
